---- MODULE Spec2Model ----
(***************************************************************************)
(* split_data_by_month.py: two CSV tables are loaded, their execution_date *)
(* column is parsed, the distinct months of the box-plot table are sorted  *)
(* and, for each month, the rows of both tables that fall in it are        *)
(* written to public/monthly/box_plot_YYYY-MM.csv and                      *)
(* public/monthly/org_data_YYYY-MM.csv.                                    *)
(*                                                                         *)
(* A CSV cell of the execution_date column is a record                     *)
(* [layout, y, m, d]: its text layout and the date the text spells.  A     *)
(* parsed value (pandas Timestamp) is [y, m, d]; NaT is the Timestamp of a *)
(* missing cell.  A month (pandas Period, frequency M) is <<y, m>>.        *)
(***************************************************************************)
EXTENDS Integers, Sequences, FiniteSets

\* Most rows of public/box_plot_stats.csv in a modelled input.
MaxRowsA == 3
\* Most rows of public/org_daily_executions.csv in a modelled input.
MaxRowsB == 2
\* Most consecutive runs of the script over the same inputs.
MaxRuns == 2

VARIABLES
    csvA,            \* public/box_plot_stats.csv: [kind, rows]
    csvB,            \* public/org_daily_executions.csv: [kind, rows]
    dirExists,       \* public/monthly exists
    files,           \* the files of public/monthly: name -> [header, rows]
    box_plot_df,     \* in-memory Table A
    org_data_df,     \* in-memory Table B
    box_plot_months, \* the months being iterated (unique, then sorted)
    idx,             \* position of the for loop in box_plot_months
    pc,              \* the statement the run is at
    err,             \* the exception that ended the run, or "none"
    trace,           \* the file-system effects of the current run, in order
    run,             \* number of the current run
    prevFiles        \* files as the previous completed run left them

vars == <<csvA, csvB, dirExists, files, box_plot_df, org_data_df,
          box_plot_months, idx, pc, err, trace, run, prevFiles>>

----------------------------------------------------------------------------
(* Values *)

Cell(layout, y, m, d) == [layout |-> layout, y |-> y, m |-> m, d |-> d]

\* An empty execution_date cell, which read_csv loads as NaN.
EmptyCell == Cell("empty", 0, 0, 0)

\* Text that no date parser accepts.
JunkCell == Cell("junk", 0, 0, 0)

NaT == [y |-> 0, m |-> 0, d |-> 0]

NaTPeriod == <<0, 0>>

\* The layouts a file's dates are written in: 2024-01-05 or 2024/01/05.
DateLayouts == {"iso", "slash"}

\* The rows the modelled inputs are built from: two days of one month, a
\* day of a month of the year before, a missing date and an unparseable
\* one.
RowPool(layout) ==
    { [execution_date |-> Cell(layout, 2023, 12, 31), val |-> 1],
      [execution_date |-> Cell(layout, 2024, 1, 5), val |-> 2],
      [execution_date |-> Cell(layout, 2024, 1, 20), val |-> 3],
      [execution_date |-> EmptyCell, val |-> 4],
      [execution_date |-> JunkCell, val |-> 5] }

SeqsUpTo(S, n) == UNION { [1..k -> S] : k \in 0..n }

\* What an input path can hold: a CSV with a header and rows whose dates
\* share one layout, nothing, an empty file, or a CSV whose header has no
\* execution_date column.
InputFiles(n) ==
    { [kind |-> "ok", rows |-> r] :
        r \in UNION { SeqsUpTo(RowPool(l), n) : l \in DateLayouts } }
        \cup { [kind |-> k, rows |-> <<>>] :
                 k \in {"missing", "empty_file", "no_date_column"} }

FileName(table, year_month) == [table |-> table, ym |-> year_month]

WriteOk(name) == [op |-> "write", name |-> name, ok |-> TRUE]

WriteFailed(name) == [op |-> "write", name |-> name, ok |-> FALSE]

MkdirEvent == [op |-> "mkdir", name |-> FileName("dir", 0), ok |-> TRUE]

----------------------------------------------------------------------------
(* pandas and the Python runtime *)

\* pd.to_datetime of one cell: a missing cell becomes NaT without error.
ToDatetime(cell) ==
    IF cell.layout = "empty" THEN NaT
    ELSE [y |-> cell.y, m |-> cell.m, d |-> cell.d]

\* ToDatetimeRaises with a parser that also rejects a column with no rows.
ToDatetimeRaisesOnNoRows(rows) ==
    \/ rows = <<>>
    \/ \E i \in 1..Len(rows) : rows[i].execution_date.layout = "junk"

\* Whether pd.to_datetime raises on a column (errors='raise'): it does on
\* text that is no date, and not on a missing cell.
ToDatetimeRaises(rows) ==
    \E i \in 1..Len(rows) : rows[i].execution_date.layout = "junk"

ParsedColumn(rows) ==
    [i \in 1..Len(rows) |->
        [execution_date |-> ToDatetime(rows[i].execution_date),
         val |-> rows[i].val]]

\* ToPeriod with the frequency 'Y': the month is dropped with the day.
ToPeriodOfYear(ts) == IF ts = NaT THEN NaTPeriod ELSE <<ts.y, 1>>

\* Series.dt.to_period('M') of one value: the day is dropped, NaT stays NaT.
ToPeriod(ts) == IF ts = NaT THEN NaTPeriod ELSE <<ts.y, ts.m>>

\* Period.strftime('%Y-%m'): the text YYYY-MM, as the number YYYYMM.
Strftime(period) == period[1] * 100 + period[2]

\* Period.__lt__: any comparison with NaT is False.
PeriodLt(a, b) ==
    /\ a # NaTPeriod
    /\ b # NaTPeriod
    /\ (a[1] < b[1] \/ (a[1] = b[1] /\ a[2] < b[2]))

RECURSIVE Unique(_)
\* Series.unique(): the distinct values in order of first appearance.
Unique(s) ==
    IF s = <<>> THEN <<>>
    ELSE LET front == Unique(SubSeq(s, 1, Len(s) - 1))
             last == s[Len(s)]
         IN IF \E i \in 1..Len(front) : front[i] = last
            THEN front ELSE Append(front, last)

Reverse(s) == [i \in 1..Len(s) |-> s[Len(s) + 1 - i]]

\* CPython list.sort, count_run: the length of the run the list starts with
\* and whether it is strictly descending.
CountRun(s) ==
    IF Len(s) < 2 THEN [n |-> Len(s), descending |-> FALSE]
    ELSE LET desc == PeriodLt(s[2], s[1])
             Step(i) == IF desc THEN PeriodLt(s[i], s[i - 1])
                        ELSE ~PeriodLt(s[i], s[i - 1])
             ends == { k \in 2..Len(s) : \A i \in 2..k : Step(i) }
         IN [n |-> Cardinality(ends) + 1, descending |-> desc]

RECURSIVE Bisect(_, _, _, _)
\* CPython list.sort, binarysort: where the pivot goes in the sorted front.
Bisect(s, pivot, l, r) ==
    IF l >= r THEN l
    ELSE LET p == l + ((r - l) \div 2)
         IN IF PeriodLt(pivot, s[p]) THEN Bisect(s, pivot, l, p)
            ELSE Bisect(s, pivot, p + 1, r)

InsertAt(s, k, x) ==
    SubSeq(s, 1, k - 1) \o <<x>> \o SubSeq(s, k, Len(s))

RECURSIVE BinarySort(_, _)
BinarySort(front, rest) ==
    IF rest = <<>> THEN front
    ELSE LET pivot == Head(rest)
             k == Bisect(front, pivot, 1, Len(front) + 1)
         IN BinarySort(InsertAt(front, k, pivot), Tail(rest))

\* sorted(box_plot_months): CPython's sort of a short list, which compares
\* with < only.
Sorted(s) ==
    LET cr == CountRun(s)
        first == SubSeq(s, 1, cr.n)
    IN BinarySort(IF cr.descending THEN Reverse(first) ELSE first,
                  SubSeq(s, cr.n + 1, Len(s)))

\* FilterMonth with >= for ==: the rows of the month and of later months.
FilterFromMonth(df, period) ==
    SelectSeq(df, LAMBDA row : ToPeriod(row.execution_date) = period
                               \/ PeriodLt(period,
                                           ToPeriod(row.execution_date)))

\* FilterMonth that hands the matching rows back newest first.
FilterMonthReversed(df, period) ==
    Reverse(SelectSeq(df, LAMBDA row :
                ToPeriod(row.execution_date) = period /\ period # NaTPeriod))

\* df[df['execution_date'].dt.to_period('M') == period]
FilterMonth(df, period) ==
    SelectSeq(df, LAMBDA row : ToPeriod(row.execution_date) = period
                               /\ period # NaTPeriod)

\* FormatDate that writes the month's first day for the date.
FormatDateOfPeriod(ts) ==
    IF ts = NaT THEN EmptyCell ELSE Cell("iso", ts.y, ts.m, 1)

\* DataFrame.to_csv's text of a datetime value: ISO, NaT as an empty cell.
FormatDate(ts) ==
    IF ts = NaT THEN EmptyCell ELSE Cell("iso", ts.y, ts.m, ts.d)

\* DataFrame.to_csv(path, index=False): a header line and one line per row.
ToCsv(df) ==
    [header |-> TRUE,
     rows |-> [i \in 1..Len(df) |->
                 [execution_date |-> FormatDate(df[i].execution_date),
                  val |-> df[i].val]]]

\* WriteFile with open(path, 'a'): the rows are added to those the file holds.
WriteFileAppending(fs, name, content) ==
    [n \in DOMAIN fs \cup {name} |->
        IF n # name THEN fs[n]
        ELSE IF name \in DOMAIN fs
             THEN [header |-> TRUE, rows |-> fs[name].rows \o content.rows]
             ELSE content]

\* open(path, 'w'): the file is replaced, whatever it held.
WriteFile(fs, name, content) ==
    [n \in DOMAIN fs \cup {name} |-> IF n = name THEN content ELSE fs[n]]

\* A file whose write failed after it was opened: truncated, nothing in it.
Truncated == [header |-> FALSE, rows |-> <<>>]

----------------------------------------------------------------------------
(* The script *)

\* The first run starts without public/monthly; a later run finds the
\* directory and the files the run before it left.
Init ==
    /\ csvA \in InputFiles(MaxRowsA)
    /\ csvB \in InputFiles(MaxRowsB)
    /\ dirExists = FALSE
    /\ files = << >>
    /\ box_plot_df = <<>>
    /\ org_data_df = <<>>
    /\ box_plot_months = <<>>
    /\ idx = 0
    /\ pc = "read_box"
    /\ err = "none"
    /\ trace = <<>>
    /\ run = 1
    /\ prevFiles = << >>

\* An uncaught exception: the interpreter exits, nothing else changes.
Raise(exception) ==
    /\ pc' = "error"
    /\ err' = exception

ReadError(csv) ==
    CASE csv.kind = "missing" -> "FileNotFoundError"
      [] csv.kind = "empty_file" -> "EmptyDataError"
      [] OTHER -> "none"

\* line 6
ReadBox ==
    /\ pc = "read_box"
    /\ IF ReadError(csvA) # "none"
       THEN Raise(ReadError(csvA)) /\ UNCHANGED box_plot_df
       ELSE pc' = "read_org" /\ box_plot_df' = csvA.rows /\ UNCHANGED err
    /\ UNCHANGED <<csvA, csvB, dirExists, files, org_data_df,
                   box_plot_months, idx, trace, run, prevFiles>>

\* line 7
ReadOrg ==
    /\ pc = "read_org"
    /\ IF ReadError(csvB) # "none"
       THEN Raise(ReadError(csvB)) /\ UNCHANGED org_data_df
       ELSE pc' = "parse_box" /\ org_data_df' = csvB.rows /\ UNCHANGED err
    /\ UNCHANGED <<csvA, csvB, dirExists, files, box_plot_df,
                   box_plot_months, idx, trace, run, prevFiles>>

\* line 10
ParseBox ==
    /\ pc = "parse_box"
    /\ \/ /\ csvA.kind = "no_date_column"
          /\ Raise("KeyError")
          /\ UNCHANGED box_plot_df
       \/ /\ csvA.kind = "ok"
          /\ ToDatetimeRaises(box_plot_df)
          /\ Raise("ValueError")
          /\ UNCHANGED box_plot_df
       \/ /\ csvA.kind = "ok"
          /\ ~ToDatetimeRaises(box_plot_df)
          /\ box_plot_df' = ParsedColumn(box_plot_df)
          /\ pc' = "parse_org"
          /\ UNCHANGED err
    /\ UNCHANGED <<csvA, csvB, dirExists, files, org_data_df,
                   box_plot_months, idx, trace, run, prevFiles>>

\* line 11
ParseOrg ==
    /\ pc = "parse_org"
    /\ \/ /\ csvB.kind = "no_date_column"
          /\ Raise("KeyError")
          /\ UNCHANGED org_data_df
       \/ /\ csvB.kind = "ok"
          /\ ToDatetimeRaises(org_data_df)
          /\ Raise("ValueError")
          /\ UNCHANGED org_data_df
       \/ /\ csvB.kind = "ok"
          /\ ~ToDatetimeRaises(org_data_df)
          /\ org_data_df' = ParsedColumn(org_data_df)
          /\ pc' = "mkdir"
          /\ UNCHANGED err
    /\ UNCHANGED <<csvA, csvB, dirExists, files, box_plot_df,
                   box_plot_months, idx, trace, run, prevFiles>>

\* lines 14-15: mkdir(exist_ok=True) creates the directory, or finds the
\* one an earlier run made.
Mkdir ==
    /\ pc = "mkdir"
    /\ dirExists' = TRUE
    /\ trace' = Append(trace, MkdirEvent)
    /\ pc' = "unique"
    /\ UNCHANGED <<csvA, csvB, files, box_plot_df, org_data_df,
                   box_plot_months, idx, err, run, prevFiles>>

\* lines 14-15: the directory cannot be created (no permission).
MkdirFails ==
    /\ pc = "mkdir"
    /\ ~dirExists
    /\ Raise("OSError")
    /\ UNCHANGED <<csvA, csvB, dirExists, files, box_plot_df, org_data_df,
                   box_plot_months, idx, trace, run, prevFiles>>

\* UniqueMonths over the months of both tables.
UniqueMonthsOfBothTables ==
    /\ pc = "unique"
    /\ box_plot_months' =
          Unique([i \in 1..Len(box_plot_df) |->
                     ToPeriod(box_plot_df[i].execution_date)]
                 \o [i \in 1..Len(org_data_df) |->
                        ToPeriod(org_data_df[i].execution_date)])
    /\ pc' = "sort"
    /\ UNCHANGED <<csvA, csvB, dirExists, files, box_plot_df, org_data_df,
                   idx, err, trace, run, prevFiles>>

\* line 18
UniqueMonths ==
    /\ pc = "unique"
    /\ box_plot_months' =
          Unique([i \in 1..Len(box_plot_df) |->
                     ToPeriod(box_plot_df[i].execution_date)])
    /\ pc' = "sort"
    /\ UNCHANGED <<csvA, csvB, dirExists, files, box_plot_df, org_data_df,
                   idx, err, trace, run, prevFiles>>

\* line 22: the iterable of the for loop is evaluated once.
SortMonths ==
    /\ pc = "sort"
    /\ box_plot_months' = Sorted(box_plot_months)
    /\ idx' = 0
    /\ pc' = "for"
    /\ UNCHANGED <<csvA, csvB, dirExists, files, box_plot_df, org_data_df,
                   err, trace, run, prevFiles>>

\* lines 22-23: the next month, or the end of the loop (line 35); strftime
\* of NaT raises.
NextMonth ==
    /\ pc = "for"
    /\ IF idx = Len(box_plot_months)
       THEN pc' = "done" /\ UNCHANGED <<idx, err>>
       ELSE IF box_plot_months[idx + 1] = NaTPeriod
            THEN Raise("ValueError") /\ UNCHANGED idx
            ELSE idx' = idx + 1 /\ pc' = "write_box" /\ UNCHANGED err
    /\ UNCHANGED <<csvA, csvB, dirExists, files, box_plot_df, org_data_df,
                   box_plot_months, trace, run, prevFiles>>

period == box_plot_months[idx]

year_month == Strftime(period)

month_box == FilterMonth(box_plot_df, period)

month_org == FilterMonth(org_data_df, period)

\* A to_csv call that succeeds.
Written(name, content, next) ==
    /\ files' = WriteFile(files, name, content)
    /\ trace' = Append(trace, WriteOk(name))
    /\ pc' = next
    /\ UNCHANGED err

\* WriteFails with the exception caught and the loop carried on.
WriteFailsAndGoesOn(name) ==
    /\ UNCHANGED <<files, err>>
    /\ trace' = Append(trace, WriteFailed(name))
    /\ pc' = IF pc = "write_box" THEN "write_org" ELSE "for"

\* A to_csv call that fails (disk full, file not writable): the file is as
\* it was, or was opened and is left truncated.
WriteFails(name) ==
    /\ \/ UNCHANGED files
       \/ files' = WriteFile(files, name, Truncated)
    /\ trace' = Append(trace, WriteFailed(name))
    /\ Raise("OSError")

\* lines 26 and 30
WriteBox ==
    /\ pc = "write_box"
    /\ \/ Written(FileName("box_plot", year_month), ToCsv(month_box),
                  "write_org")
       \/ WriteFails(FileName("box_plot", year_month))
    /\ UNCHANGED <<csvA, csvB, dirExists, box_plot_df, org_data_df,
                   box_plot_months, idx, run, prevFiles>>

\* lines 27 and 31
WriteOrg ==
    /\ pc = "write_org"
    /\ \/ Written(FileName("org_data", year_month), ToCsv(month_org), "for")
       \/ WriteFails(FileName("org_data", year_month))
    /\ UNCHANGED <<csvA, csvB, dirExists, box_plot_df, org_data_df,
                   box_plot_months, idx, run, prevFiles>>

\* The script is started again over the same inputs and the directory the
\* completed run left.
RunAgain ==
    /\ pc = "done"
    /\ run < MaxRuns
    /\ run' = run + 1
    /\ prevFiles' = files
    /\ box_plot_df' = <<>>
    /\ org_data_df' = <<>>
    /\ box_plot_months' = <<>>
    /\ idx' = 0
    /\ trace' = <<>>
    /\ pc' = "read_box"
    /\ UNCHANGED <<csvA, csvB, dirExists, files, err>>

Next ==
    \/ ReadBox
    \/ ReadOrg
    \/ ParseBox
    \/ ParseOrg
    \/ Mkdir
    \/ MkdirFails
    \/ UniqueMonths
    \/ SortMonths
    \/ NextMonth
    \/ WriteBox
    \/ WriteOrg
    \/ RunAgain

Spec == Init /\ [][Next]_vars

----------------------------------------------------------------------------
(* What the properties are stated with: the input files as they are on     *)
(* disk, the files the current run wrote, and the month a cell's text      *)
(* spells, none of it computed by the script's own steps.                  *)

\* The month (YYYYMM) of the date a cell spells; 0 for a cell with no date.
CellMonth(cell) == cell.y * 100 + cell.m

SourceRows(table) == IF table = "box_plot" THEN csvA.rows ELSE csvB.rows

\* The distinct months of the dates in Table A's execution_date column.
MonthsOfA ==
    { CellMonth(csvA.rows[i].execution_date) :
        i \in { j \in 1..Len(csvA.rows) :
                  csvA.rows[j].execution_date.layout \in {"iso", "slash"} } }

\* A source row with its date in the layout to_csv writes (YYYY-MM-DD).
Normalized(row) ==
    [execution_date |->
        IF row.execution_date.layout \in {"iso", "slash"}
        THEN [row.execution_date EXCEPT !.layout = "iso"]
        ELSE row.execution_date,
     val |-> row.val]

Count(s, x) == Cardinality({ i \in 1..Len(s) : s[i] = x })

\* The files the current run has written successfully.
Produced ==
    { trace[k].name : k \in { i \in 1..Len(trace) :
                                trace[i].op = "write" /\ trace[i].ok } }

ProducedMonths == { f.ym : f \in Produced }

\* Every write the current run attempted, failed ones included.
Attempted ==
    { trace[k].name : k \in { i \in 1..Len(trace) : trace[i].op = "write" } }

\* The rows of a source table that fall in a month, as to_csv writes them.
RECURSIVE RowsOfMonth(_, _)
RowsOfMonth(rows, ym) ==
    IF rows = <<>> THEN <<>>
    ELSE LET rest == RowsOfMonth(Tail(rows), ym)
         IN IF CellMonth(Head(rows).execution_date) = ym
            THEN <<Normalized(Head(rows))>> \o rest ELSE rest

RECURSIVE IsSubsequence(_, _)
IsSubsequence(s, t) ==
    IF s = <<>> THEN TRUE
    ELSE IF t = <<>> THEN FALSE
    ELSE IF Head(s) = Head(t) THEN IsSubsequence(Tail(s), Tail(t))
    ELSE IsSubsequence(s, Tail(t))

\* The input loads and its execution_date column parses.
Parses(csv) ==
    /\ csv.kind = "ok"
    /\ \A i \in 1..Len(csv.rows) : csv.rows[i].execution_date.layout # "junk"

HasCell(csv, layout) ==
    \E i \in 1..Len(csv.rows) : csv.rows[i].execution_date.layout = layout

----------------------------------------------------------------------------
(* Properties *)

\* Every row of Table A is in exactly one box_plot file the completed run
\* wrote, the file of its month, as often as Table A holds it; the row is
\* looked for as the source spells it or with its date normalized.
Completeness(normalized) ==
    pc = "done" =>
        \A i \in 1..Len(csvA.rows) :
            LET src == csvA.rows[i]
                out == IF normalized THEN Normalized(src) ELSE src
                own == FileName("box_plot", CellMonth(src.execution_date))
                holders == { f \in Produced :
                               /\ f.table = "box_plot"
                               /\ Count(files[f].rows, out) > 0 }
            IN /\ holders = {own}
               /\ Count(files[own].rows, out) =
                     Cardinality({ j \in 1..Len(csvA.rows) :
                                     csvA.rows[j] = src })

\* C1, as amended: after a run that completes without error, every row of
\* Table A is in exactly one box_plot file, the one of the month of its
\* date, with its other column as in the source and its execution_date the
\* same calendar date written as YYYY-MM-DD.
C1_CompletenessNormalized == Completeness(TRUE)

\* C1, as stated: the row is in that file unmodified, execution_date text
\* included.
C1_CompletenessUnmodified == Completeness(FALSE)

\* A completed run over a Table A with a date not written YYYY-MM-DD and
\* rows of two months.
C1_Witness ==
    /\ pc = "done"
    /\ HasCell(csvA, "slash")
    /\ Cardinality(MonthsOfA) = 2

\* C2: after a run that completes without error, the months the run wrote
\* files for are exactly the distinct months of Table A's execution_date.
C2_PartitionCorrectness ==
    pc = "done" =>
        /\ ProducedMonths = MonthsOfA
        /\ \A ym \in MonthsOfA : FileName("box_plot", ym) \in Produced

\* A completed run over a Table A of three rows and two months.
C2_Witness ==
    /\ pc = "done"
    /\ Cardinality(MonthsOfA) = 2
    /\ Len(csvA.rows) = 3

\* C3: after a run that completes without error, every month that has a
\* box_plot file has an org_data file too, holding a header and exactly the
\* rows of Table B whose execution_date falls in that month, each as often
\* as Table B holds it; none when Table B has no row of that month.
C3_CompanionFile ==
    pc = "done" =>
        \A ym \in ProducedMonths :
            LET org == FileName("org_data", ym)
                inMonth == { j \in 1..Len(csvB.rows) :
                               CellMonth(csvB.rows[j].execution_date) = ym }
            IN /\ org \in Produced
               /\ files[org].header
               /\ Len(files[org].rows) = Cardinality(inMonth)
               /\ \A j \in inMonth :
                     Count(files[org].rows, Normalized(csvB.rows[j])) =
                        Cardinality({ k \in inMonth :
                                        csvB.rows[k] = csvB.rows[j] })

\* A completed run that wrote one org_data file with two rows and one with
\* a header only.
C3_Witness ==
    /\ pc = "done"
    /\ \E f \in Produced : f.table = "org_data" /\ Len(files[f].rows) = 2
    /\ \E f \in Produced : f.table = "org_data" /\ Len(files[f].rows) = 0

\* C4: a row of Table B whose month is not a month of Table A is in no
\* file the run writes; with inputs that load and parse and a Table A with
\* no missing date the run raises nothing but an I/O error, whatever months
\* Table B holds; after a completed run every other row of Table B is in
\* exactly one org_data file.
C4_TableBFiltering ==
    /\ \A j \in 1..Len(csvB.rows) :
          LET src == csvB.rows[j]
              ym == CellMonth(src.execution_date)
              holders == { f \in Produced :
                             Count(files[f].rows, Normalized(src)) > 0 }
          IN IF ym \notin MonthsOfA
             THEN { f \in holders : f.table = "org_data" } = {}
                  /\ \A f \in Produced : f.ym # ym
             ELSE pc = "done" =>
                     { f \in holders : f.table = "org_data" } =
                        { FileName("org_data", ym) }
    /\ (Parses(csvA) /\ Parses(csvB) /\ ~HasCell(csvA, "empty")
           /\ pc = "error") => err = "OSError"

\* A completed run over a Table B with one row of a month Table A lacks,
\* and one row of a month Table A has.
C4_Witness ==
    /\ pc = "done"
    /\ Len(csvB.rows) = 2
    /\ \E j \in 1..2 : CellMonth(csvB.rows[j].execution_date) \in MonthsOfA
    /\ \E j \in 1..2 :
          /\ csvB.rows[j].execution_date.layout \in {"iso", "slash"}
          /\ CellMonth(csvB.rows[j].execution_date) \notin MonthsOfA

\* C5: the rows of every file the run wrote are a subsequence of the rows
\* of its source table (dates normalized): source order, no row twice.
C5_RowOrder ==
    \A f \in Produced :
        IsSubsequence(files[f].rows,
                      [i \in 1..Len(SourceRows(f.table)) |->
                          Normalized(SourceRows(f.table)[i])])

\* A box_plot file and an org_data file, each with two different rows.
C5_Witness ==
    /\ \E f \in Produced :
          /\ f.table = "box_plot"
          /\ Len(files[f].rows) = 2
          /\ files[f].rows[1] # files[f].rows[2]
    /\ \E f \in Produced :
          /\ f.table = "org_data"
          /\ Len(files[f].rows) = 2
          /\ files[f].rows[1] # files[f].rows[2]

\* C6: when the script has run to completion and is run again over the
\* same inputs, the directory holds the same files with the same contents
\* after the second run as after the first.
C6_Idempotence == (pc = "done" /\ run > 1) => files = prevFiles

\* A second completed run that wrote files with rows.
C6_Witness ==
    /\ pc = "done"
    /\ run > 1
    /\ \E f \in Produced : Len(files[f].rows) = 2

\* C7: when Table A has a header and no rows, the month sequence is empty
\* and the run attempts no write, whatever Table B holds; when Table B
\* loads and parses the run raises nothing but a failure to create the
\* directory.
C7_EmptyInput ==
    (csvA.kind = "ok" /\ csvA.rows = <<>>) =>
        /\ box_plot_months = <<>>
        /\ Attempted = {}
        /\ files = prevFiles
        /\ pc \notin {"write_box", "write_org"}
        /\ (pc = "error" /\ Parses(csvB)) => err = "OSError" /\ trace = <<>>

\* A completed run over an empty Table A and a Table B with rows.
C7_Witness ==
    /\ pc = "done"
    /\ csvA.kind = "ok"
    /\ csvA.rows = <<>>
    /\ Len(csvB.rows) = 2
    /\ Parses(csvB)

\* An input that is missing or malformed, or holds an execution_date that
\* is no date.
BadInput ==
    \/ csvA.kind # "ok"
    \/ csvB.kind # "ok"
    \/ \E l \in {"junk", "empty"} : HasCell(csvA, l) \/ HasCell(csvB, l)

\* C8, as stated: with such an input the run aborts before it writes: no
\* write is ever attempted.
C8_AllOrNothing == BadInput => Attempted = {}

\* What holds of the errors the code does raise at lines 6-11 (a missing or
\* malformed file, text that is no date): nothing was done to the file
\* system, the directory included.
RaisedInputErrorsWriteNothing ==
    (~Parses(csvA) \/ ~Parses(csvB)) =>
        (trace = <<>> /\ files = prevFiles /\ pc # "done")

\* C9: a failed write is the last effect of the run, which ends with the
\* error; every file written before it is on disk as it was written.
C9_AbortWithoutRollback ==
    \A k \in 1..Len(trace) :
        (trace[k].op = "write" /\ ~trace[k].ok) =>
            /\ k = Len(trace)
            /\ pc = "error"
            /\ err = "OSError"
            /\ trace[k].name \notin Produced
            /\ \A f \in Produced :
                  /\ files[f].header
                  /\ files[f].rows =
                        RowsOfMonth(SourceRows(f.table), f.ym)

\* The write of the second month's org_data file failed: three files were
\* written before it.
C9_Witness ==
    /\ Len(trace) = 5
    /\ ~trace[5].ok
    /\ trace[5].name.table = "org_data"

\* The months that have a file are the first months of Table A's months
\* in ascending order.
ProducedIsPrefix ==
    \A ym \in ProducedMonths :
        \A earlier \in MonthsOfA : earlier < ym => earlier \in ProducedMonths

\* C10, as stated: the directory is made before any write, the writes go
\* month by month in ascending order, each month once, box_plot before
\* org_data, and the months that have a file are a prefix of Table A's
\* months in ascending order.
C10_OrderOfEffects ==
    /\ (trace # <<>>) => (trace[1].op = "mkdir" /\ dirExists)
    /\ \A k \in 2..Len(trace) :
          /\ trace[k].op = "write"
          /\ IF k % 2 = 0
             THEN /\ trace[k].name.table = "box_plot"
                  /\ k > 2 => trace[k - 2].name.ym < trace[k].name.ym
             ELSE /\ trace[k].name.table = "org_data"
                  /\ trace[k].name.ym = trace[k - 1].name.ym
    /\ ProducedIsPrefix

\* The order of effects when no date of Table A is missing.
OrderOfEffectsWithoutMissingDates ==
    ~HasCell(csvA, "empty") => C10_OrderOfEffects

====
